---- MODULE Spec2Model ----
(***************************************************************************)
(* Model of the sos report plugins dqlite, microk8s and ceph_common:       *)
(* the per-package dqlite collection plan built by dqlite.setup, the       *)
(* execution of the collected commands, and the postproc substitutions     *)
(* applied to the collected artifacts.                                     *)
(*                                                                         *)
(* Text is a sequence of tokens.  A token is one character (" ", "\n",     *)
(* "#", ":", "=", "x") or an indivisible word (a key name, a value, a      *)
(* mask).  Whitespace is exactly the tokens " " and "\n".                  *)
(***************************************************************************)
EXTENDS Naturals, Sequences, FiniteSets, TLC

\* ------------------------------------------------------------------ bounds
MaxInstalled == 2     \* packages installed on the host
MaxTopoLines == 2     \* lines of cluster.yaml
MaxTextLen == 4       \* tokens of client.config in the redaction specification
MaxPasses == 2        \* substitution passes in the redaction specification

\* ---------------------------------------------------------------- registry
\* dqlite.packages / the dict order of `packages` in dqlite.setup
Packages == <<"microceph", "microovn", "microcloud", "microk8s", "lxd">>

PackageSet == {Packages[i] : i \in DOMAIN Packages}

\* Python None is modelled as the empty string (both are falsy).
None == ""

Registry(pkg) ==
    CASE pkg = "microceph" ->
            [db_path |-> "/var/snap/microceph/common/state/database",
             socket |-> "/var/snap/microceph/common/state/control.socket",
             sql_cmd |-> "microceph cluster sql",
             socket_endpoint |-> "microceph/core/internal/sql",
             collection |-> "microceph_collection"]
      [] pkg = "microovn" ->
            [db_path |-> "/var/snap/microovn/common/state/database",
             socket |-> "/var/snap/microovn/common/state/control.socket",
             sql_cmd |-> "microovn cluster sql",
             socket_endpoint |-> "microovn/core/internal/sql",
             collection |-> "microovn_collection"]
      [] pkg = "microcloud" ->
            [db_path |-> "/var/snap/microcloud/common/state/database",
             socket |-> "/var/snap/microcloud/common/state/control.socket",
             sql_cmd |-> "microcloud sql",
             socket_endpoint |-> "microcloud/core/internal/sql",
             collection |-> "microcloud_collection"]
      [] pkg = "microk8s" ->
            [db_path |-> "/var/snap/microk8s/current/var/kubernetes/backend",
             socket |-> "/var/snap/microk8s/current/var/kubernetes/backend/kine.sock:12379",
             sql_cmd |-> None,
             socket_endpoint |-> "microk8s/core/internal/sql",
             collection |-> "microk8s_collection"]
      [] pkg = "lxd" ->
            [db_path |-> "/var/snap/lxd/common/lxd/database/global",
             socket |-> "/var/snap/lxd/common/lxd/unix.socket",
             sql_cmd |-> "lxd sql local",
             socket_endpoint |-> "lxd/internal/sql",
             collection |-> "lxd_collection"]

ClientConfigPath == "/var/snap/microk8s/current/credentials/client.config"
CephConfPath == "/etc/ceph/ceph.conf"

\* ------------------------------------------------------------ query texts
SchemaQuery == "SELECT * FROM sqlite_master WHERE type=\"table\";"
TokenRecordsQuery == "SELECT id, name, expiry_date FROM core_token_records;"
ClusterMembersQuery ==
    "SELECT id, name, address, schema_internal, schema_external, heartbeat, role, api_extensions FROM core_cluster_members;"
ConfigQuery ==
    "SELECT * FROM config WHERE NOT ( key LIKE \"%keyring%\" OR key LIKE \"%ca_cert%\" OR key LIKE \"%ca_key%\" );"
ServicesQuery == "SELECT * FROM services;"

\* --------------------------------------------------------------- commands
\* zip(xs, ys): pairs up to the shorter of the two lists
Zip(xs, ys) ==
    LET n == IF Len(xs) < Len(ys) THEN Len(xs) ELSE Len(ys)
    IN  [i \in 1..n |-> <<xs[i], ys[i]>>]

\* json.dumps of the socket payload {"query": query, "database": "local"} or
\* {"query": query}: the value of its database key, None when it has none
QueryJsonDatabase(pkg) == IF pkg = "lxd" THEN "local" ELSE None

\* One add_cmd_output / add_dir_listing call of the dqlite plugin.
\* `exe` is the program run (its socket, endpoint and certificate arguments
\* are those of Registry(subdir)), `arg` the query text or path it is given,
\* `database` the database key of a socket payload.
Cmd(transport, exe, arg, database, name, sub) ==
    [plugin |-> "dqlite", transport |-> transport, exe |-> exe, arg |-> arg,
     database |-> database, suggest_filename |-> name, subdir |-> sub]

\* Mutant of BatchPair: the CLI command is added for the first table only.
BatchPair_CliOnce(pkg, cfg, query, table) ==
    <<Cmd("socket", "curl", query, QueryJsonDatabase(pkg),
          pkg \o "_dqlite_" \o table, pkg)>>
    \o (IF cfg.sql_cmd # None /\ table = "schema"
        THEN <<Cmd("cli", cfg.sql_cmd, query, None, cfg.sql_cmd \o "_" \o table, pkg)>>
        ELSE <<>>)

\* the socket command and, when sql_cmd is set, the CLI command of one query
BatchPair(pkg, cfg, query, table) ==
    <<Cmd("socket", "curl", query, QueryJsonDatabase(pkg),
          pkg \o "_dqlite_" \o table, pkg)>>
    \o (IF cfg.sql_cmd # None
        THEN <<Cmd("cli", cfg.sql_cmd, query, None, cfg.sql_cmd \o "_" \o table, pkg)>>
        ELSE <<>>)

RECURSIVE BatchFrom(_, _, _, _)
BatchFrom(pkg, cfg, pairs, i) ==
    IF i > Len(pairs) THEN <<>>
    ELSE BatchPair(pkg, cfg, pairs[i][1], pairs[i][2]) \o BatchFrom(pkg, cfg, pairs, i + 1)

\* dqlite.run_batch_dqlite_queries: the commands it adds, in order
run_batch_dqlite_queries(pkg, cfg, queries, tables) ==
    BatchFrom(pkg, cfg, Zip(queries, tables), 1)

\* ---------------------------------------------------------------- planner
\* base_collection: queries/tables start with the schema query
PlanSchema == [queries |-> <<SchemaQuery>>, tables |-> <<"schema">>]

\* Mutant of PlanMembership: the lxd exclusion is missing.
PlanMembership_NoExclusion(pkg, plan) ==
    [queries |-> plan.queries \o <<TokenRecordsQuery, ClusterMembersQuery>>,
     tables |-> plan.tables \o <<"token_records", "core_cluster_members">>]

\* base_collection: `if pkg not in ("lxd",)` extends with the membership queries
PlanMembership(pkg, plan) ==
    IF pkg \notin {"lxd"}
    THEN [queries |-> plan.queries \o <<TokenRecordsQuery, ClusterMembersQuery>>,
          tables |-> plan.tables \o <<"token_records", "core_cluster_members">>]
    ELSE plan

\* Mutant of PlanConfig: the microcloud exclusion is missing.
PlanConfig_NoExclusion(pkg, plan) ==
    [queries |-> plan.queries \o <<ConfigQuery>>,
     tables |-> plan.tables \o <<"config">>]

\* base_collection: `if pkg not in ("microcloud",)` extends with the config query
PlanConfig(pkg, plan) ==
    IF pkg \notin {"microcloud"}
    THEN [queries |-> plan.queries \o <<ConfigQuery>>,
          tables |-> plan.tables \o <<"config">>]
    ELSE plan

\* Mutant of PlanServices: services is queried unless the package is lxd.
PlanServices_NotLxd(pkg, plan) ==
    IF pkg \notin {"lxd"}
    THEN [queries |-> plan.queries \o <<ServicesQuery>>,
          tables |-> plan.tables \o <<"services">>]
    ELSE plan

\* base_collection: `if pkg in ("microceph", "microovn",)` extends with services
PlanServices(pkg, plan) ==
    IF pkg \in {"microceph", "microovn"}
    THEN [queries |-> plan.queries \o <<ServicesQuery>>,
          tables |-> plan.tables \o <<"services">>]
    ELSE plan

BasePlan(pkg) == PlanServices(pkg, PlanConfig(pkg, PlanMembership(pkg, PlanSchema)))

\* What one collection function adds: commands, copy specs, alerts.
Added(cmds, copies, alerts) == [cmds |-> cmds, copies |-> copies, alerts |-> alerts]

\* Mutant of BaseQueriesCmds: the early return for microk8s is missing.
BaseQueriesCmds_NoReturn(pkg, cfg) ==
    run_batch_dqlite_queries(pkg, cfg, BasePlan(pkg).queries, BasePlan(pkg).tables)

\* base_collection: the early return for microk8s
BaseQueriesCmds(pkg, cfg) ==
    IF pkg = "microk8s" THEN <<>>
    ELSE run_batch_dqlite_queries(pkg, cfg, BasePlan(pkg).queries, BasePlan(pkg).tables)

\* dqlite.base_collection
base_collection(pkg, cfg) ==
    Added(<<Cmd("ls", "ls", cfg.db_path, None, "ls_" \o pkg \o "_dqlite_dir", pkg)>>
              \o BaseQueriesCmds(pkg, cfg),
          <<cfg.db_path \o "/info.yaml",
            cfg.db_path \o "/cluster.yaml",
            cfg.db_path \o "/../daemon.yaml">>,
          <<>>)

\* dqlite.microceph_collection
microceph_collection(pkg, cfg) ==
    Added(run_batch_dqlite_queries(pkg, cfg,
              <<"SELECT * FROM disks;", "SELECT * FROM client_config;", "SELECT * FROM remote;">>,
              <<"disks", "client_config", "remote">>),
          <<>>, <<>>)

\* dqlite.microovn_collection, microcloud_collection, lxd_collection: no-ops
noop_collection(pkg, cfg) == Added(<<>>, <<>>, <<>>)

\* --------------------------------------------------------- topology file
\* A line of cluster.yaml is [key, value]; the nodes of the model's hosts.
IpPorts == {"10.0.0.1:7000", "10.0.0.2:7000"}

TopoLines ==
    {[key |-> "Address:", value |-> a] : a \in IpPorts}
        \cup {[key |-> "ID:", value |-> "3297041220608546238"]}

\* re.findall(r'Address:\s*(\d+\.\d+\.\d+\.\d+:\d+)', cluster): the captured
\* addresses, one per matching line, in file order
RECURSIVE FindAllFrom(_, _)
FindAllFrom(cluster, i) ==
    IF i > Len(cluster) THEN <<>>
    ELSE (IF cluster[i].key = "Address:" /\ cluster[i].value \in IpPorts
          THEN <<cluster[i].value>> ELSE <<>>)
         \o FindAllFrom(cluster, i + 1)

FindAllAddresses(cluster) == FindAllFrom(cluster, 1)

\* microk8s_collection: the three fixed dqlite shell queries
FixedQueries == <<"\".cluster\"", "\".cluster\" -f json", "\".leader\"">>

\* microk8s_collection: one query per node appended to `queries`
DescribeQueries(nodes) ==
    [i \in 1..Len(nodes) |-> "\".describe " \o nodes[i] \o "\" -f json"]

\* microk8s_collection: one name per node appended to `suggested_names`
DescribeNames(pkg, nodes) ==
    [i \in 1..Len(nodes) |-> pkg \o "_dqlite_.describe_" \o nodes[i]]

\* Mutant of TopologyNodes: only the first address is kept (re.search for
\* re.findall).
TopologyNodes_First(readable, cluster) ==
    IF readable /\ FindAllAddresses(cluster) # <<>>
    THEN <<FindAllAddresses(cluster)[1]>> ELSE <<>>

\* microk8s_collection: the try block; open() raises when the file is unreadable
TopologyNodes(readable, cluster) ==
    IF readable THEN FindAllAddresses(cluster) ELSE <<>>

\* dqlite.microk8s_collection
microk8s_collection(pkg, cfg, readable, cluster) ==
    LET servers == cfg.db_path \o "/cluster.yaml"
        dqlite_bin == "/snap/microk8s/current/bin/dqlite"
        nodes == TopologyNodes(readable, cluster)
        queries == FixedQueries \o DescribeQueries(nodes)
        suggested_names ==
            [i \in 1..Len(FixedQueries) |-> pkg \o "_dqlite_" \o FixedQueries[i]]
                \o DescribeNames(pkg, nodes)
        pairs == Zip(queries, suggested_names)
    IN  Added([i \in 1..Len(pairs) |->
                  Cmd("dqlite", dqlite_bin, pairs[i][1], None, pairs[i][2], pkg)],
              <<ClientConfigPath, cfg.db_path \o "/failure-domain">>,
              IF readable THEN <<>> ELSE <<"Failed to parse " \o servers>>)

\* setup: config.get("collection")(pkg, config)
Collection(pkg, cfg, readable, cluster) ==
    CASE cfg.collection = "microceph_collection" -> microceph_collection(pkg, cfg)
      [] cfg.collection = "microk8s_collection" ->
            microk8s_collection(pkg, cfg, readable, cluster)
      [] OTHER -> noop_collection(pkg, cfg)

\* -------------------------------------------------------- microk8s plugin
\* Microk8s class body: the try block binds the class attribute `nodes` only
\* when open() and read() of cluster.yaml succeed; `except Exception: pass`
\* leaves it unbound otherwise.
Microk8sClassNodes(readable, cluster) ==
    [bound |-> readable,
     nodes |-> IF readable THEN FindAllAddresses(cluster) ELSE <<>>]

\* One add_journal / add_cmd_output call of the microk8s plugin (no subdir).
Microk8sCmd(transport, exe, arg, name) ==
    [plugin |-> "microk8s", transport |-> transport, exe |-> exe, arg |-> arg,
     database |-> None, suggest_filename |-> name, subdir |-> None]

\* Microk8s.setup: microk8s_subcmds
Microk8sSubcmds ==
    <<"addons repo list", "config", "ctr plugins ls", "ctr plugins ls -d", "status",
      "version">>

\* Microk8s.setup up to the read of self.nodes: the journal and the microk8s
\* commands
Microk8sSetupHead ==
    <<Microk8sCmd("journal", "journalctl", "snap.microk8s.*", None)>>
    \o [i \in 1..Len(Microk8sSubcmds) |->
           Microk8sCmd("microk8s", "microk8s", Microk8sSubcmds[i], None)]

\* Microk8s.setup: dqlite_subcmds, the describe queries then the fixed ones
Microk8sDqliteSubcmds(nodes) == DescribeQueries(nodes) \o FixedQueries

\* Microk8s.setup from the read of self.nodes on: the dqlite commands and the
\* directory listing
Microk8sSetupTail(nodes) ==
    [i \in 1..Len(Microk8sDqliteSubcmds(nodes)) |->
        Microk8sCmd("dqlite", "/snap/microk8s/current/bin/dqlite",
                    Microk8sDqliteSubcmds(nodes)[i],
                    "dqlite_" \o Microk8sDqliteSubcmds(nodes)[i])]
    \o <<Microk8sCmd("ls", "ls", "/var/snap/microk8s/current/var/kubernetes/backend",
                     None)>>

\* Microk8s.setup: add_copy_spec
Microk8sCopySpecs ==
    <<ClientConfigPath,
      "/var/snap/microk8s/current/var/kubernetes/backend/info.yaml",
      "/var/snap/microk8s/current/var/kubernetes/backend/cluster.yaml",
      "/var/snap/microk8s/current/var/kubernetes/backend/failure-domain">>

\* Microk8s.setup: what it adds, and whether it raised.  Reading self.nodes
\* raises AttributeError when the class body left `nodes` unbound; nothing
\* after that statement is executed.
microk8s_setup(cls) ==
    IF cls.bound
    THEN [cmds |-> Microk8sSetupHead \o Microk8sSetupTail(cls.nodes),
          copies |-> Microk8sCopySpecs, raised |-> FALSE]
    ELSE [cmds |-> Microk8sSetupHead, copies |-> <<>>, raised |-> TRUE]

\* ------------------------------------------------------------------- text
NL == "\n"

\* the tokens \s matches
Ws == {" ", NL}

\* \s* from position p: the first position at or after p that is not whitespace
RECURSIVE SkipWs(_, _)
SkipWs(t, p) == IF p <= Len(t) /\ t[p] \in Ws THEN SkipWs(t, p + 1) ELSE p

\* .* from position p: the first position at or after p holding a newline
RECURSIVE LineEnd(_, _)
LineEnd(t, p) == IF p <= Len(t) /\ t[p] # NL THEN LineEnd(t, p + 1) ELSE p

\* ^ under re.MULTILINE
AtLineStart(t, p) == p = 1 \/ t[p - 1] = NL

\* A substitution rule is its regular expression in fields, and the tokens
\* its replacement template puts after \1:
\*   anchored         the expression starts with ^
\*   lead             "outside": ^\s*( ...   "inside": (^\s* ...   "none"
\*   hash_opt         #?\s* before the key
\*   keys             the alternation of key names
\*   ws_before_sep    \s* between the key and the separator
\*   sep              ":" or "="
\*   ws_after_sep     "star": \s*   "one": \s
\*   value_nonempty   the value is (\S.*) rather than (.*)
\*   mask             what follows \1 in the replacement

\* dqlite.postproc: fr"^\s*(#?\s*({'|'.join(protect_keys)}):\s*)(\S.*)", r"\1 ******"
DqliteRule ==
    [anchored |-> TRUE, lead |-> "outside", hash_opt |-> TRUE,
     keys |-> {"certificate-authority-data", "client-certificate-data", "client-key-data"},
     ws_before_sep |-> FALSE, sep |-> ":", ws_after_sep |-> "star",
     value_nonempty |-> TRUE, mask |-> <<" ", "******">>]

\* Microk8s.postproc: fr'(^\s*({"|".join(protect_keys)})\s*:\s*)(.*)', r"\1*********"
Microk8sRule ==
    [anchored |-> TRUE, lead |-> "inside", hash_opt |-> FALSE,
     keys |-> {"certificate-authority-data", "client-certificate-data", "client-key-data",
               "token"},
     ws_before_sep |-> TRUE, sep |-> ":", ws_after_sep |-> "star",
     value_nonempty |-> FALSE, mask |-> <<"*********">>]

\* Microk8s.postproc: r'(certificate-authority-data:|token:)\s.*', r'\1 "**********"'
Microk8sCmdRule ==
    [anchored |-> FALSE, lead |-> "none", hash_opt |-> FALSE,
     keys |-> {"certificate-authority-data", "token"},
     ws_before_sep |-> FALSE, sep |-> ":", ws_after_sep |-> "one",
     value_nonempty |-> FALSE, mask |-> <<" ", "\"**********\"">>]

\* CephCommon.postproc: fr"(^({'|'.join(protect_keys)})\s*=\s*)(.*)", r"\1*********"
CephRule ==
    [anchored |-> TRUE, lead |-> "none", hash_opt |-> FALSE,
     keys |-> {"rgw keystone admin password"},
     ws_before_sep |-> TRUE, sep |-> "=", ws_after_sep |-> "star",
     value_nonempty |-> FALSE, mask |-> <<"*********">>]

\* The match of rule r at position p of t, as the regular expression engine
\* finds it (greedy, and no alternative match exists once the greedy one
\* fails): ok, the span [g1s, g1e) of group 1 and the end e of the match.
RuleMatch(r, t, p) ==
    LET a == IF r.lead = "none" THEN p ELSE SkipWs(t, p)
        b == IF r.hash_opt /\ a <= Len(t) /\ t[a] = "#" THEN SkipWs(t, a + 1) ELSE a
        c == IF r.ws_before_sep THEN SkipWs(t, b + 1) ELSE b + 1
        d == IF r.ws_after_sep = "star" THEN SkipWs(t, c + 1)
             ELSE IF r.ws_after_sep = "one" THEN c + 2
             ELSE c + 1
    IN  [ok |-> /\ r.anchored => AtLineStart(t, p)
                /\ b <= Len(t) /\ t[b] \in r.keys
                /\ c <= Len(t) /\ t[c] = r.sep
                /\ r.ws_after_sep = "one" => (c + 1 <= Len(t) /\ t[c + 1] \in Ws)
                /\ r.value_nonempty => d <= Len(t),
         g1s |-> IF r.lead = "outside" THEN a ELSE p,
         g1e |-> IF r.ws_after_sep = "one" THEN c + 1 ELSE d,
         e |-> IF r.value_nonempty THEN LineEnd(t, d + 1) ELSE LineEnd(t, d)]

\* re.subn(pattern, subst, content): leftmost matches, left to right, each
\* replaced by group 1 followed by the mask; the rest copied
RECURSIVE SubFrom(_, _, _)
SubFrom(r, t, p) ==
    IF p > Len(t) THEN <<>>
    ELSE IF RuleMatch(r, t, p).ok
         THEN SubSeq(t, RuleMatch(r, t, p).g1s, RuleMatch(r, t, p).g1e - 1)
                  \o r.mask \o SubFrom(r, t, RuleMatch(r, t, p).e)
         ELSE <<t[p]>> \o SubFrom(r, t, p + 1)

Sub(r, t) == SubFrom(r, t, 1)

\* Plugin.do_file_sub / do_path_regex_sub: the rule applied to the collected
\* copy of `path`, if there is one
do_file_sub(arch, path, r) ==
    IF path \in DOMAIN arch THEN [arch EXCEPT ![path] = Sub(r, @)] ELSE arch

\* Plugin.do_cmd_output_sub: the rule applied to the output file of every
\* executed command of the plugin whose command line contains `cmd`
do_cmd_output_sub(arch, executed, r) ==
    [f \in DOMAIN arch |->
        IF \E i \in DOMAIN executed : executed[i] = f THEN Sub(r, arch[f]) ELSE arch[f]]

\* dqlite.postproc
dqlite_postproc(arch) == do_file_sub(arch, ClientConfigPath, DqliteRule)

\* Microk8s.postproc
microk8s_postproc(arch, executed) ==
    do_file_sub(do_cmd_output_sub(arch, executed, Microk8sCmdRule),
                ClientConfigPath, Microk8sRule)

\* CephCommon.postproc
ceph_common_postproc(arch) == do_file_sub(arch, CephConfPath, CephRule)

\* ------------------------------------------------------------------ state
VARIABLES
    installed,      \* the packages is_installed() reports
    topoReadable,   \* whether open() of cluster.yaml succeeds
    cluster,        \* the lines of cluster.yaml
    cfgTable,       \* the rows (key, value) of a backend's config table
    down,           \* the (package, transport) pairs that fail on this host
    pc,             \* the phase of the report run
    pkgIdx,         \* position of dqlite.setup in `packages`
    collect_cmds,   \* the commands added by add_cmd_output, in order
    copy_specs,     \* the paths added by add_copy_spec, in order
    alerts,         \* the messages added by add_alert
    results,        \* the exit status of each executed command, in order
    archive,        \* collected artifacts: path -> text
    passes,         \* redaction specification: the substitution passes made
    microk8s_cmds,  \* the commands added by Microk8s.setup, in order
    setup_raised    \* the plugins whose setup raised an exception

vars == <<installed, topoReadable, cluster, cfgTable, down, pc, pkgIdx, collect_cmds,
          copy_specs, alerts, results, archive, passes, microk8s_cmds, setup_raised>>

\* --------------------------------------------------------------- the host
Topologies == UNION {[1..n -> TopoLines] : n \in 0..MaxTopoLines}

\* The config table of the model's hosts.
ConfigTables ==
    {<<<<"public_network", "10.0.0.0/24">>,
       <<"rgw keystone admin password", "hunter2">>,
       <<"keyring.client.admin", "AQB">>,
       <<"cluster.ca_key", "PEM">>>>}

\* ConfigQuery's WHERE clause: the keys LIKE "%keyring%", "%ca_cert%" or "%ca_key%"
SecretKeywordKeys == {"keyring.client.admin", "cluster.ca_cert", "cluster.ca_key"}

RECURSIVE RenderRows(_, _)
RenderRows(rows, i) ==
    IF i > Len(rows) THEN <<>>
    ELSE <<rows[i][1], " ", rows[i][2], NL>> \o RenderRows(rows, i + 1)

\* The transports a package's commands go through: the control socket and the
\* SQL CLI command, or the dqlite shell for microk8s.
TransportsOf(pkg) == IF pkg = "microk8s" THEN {"dqlite"} ELSE {"socket", "cli"}

\* The exit status of a command: non-zero when its transport is down (socket
\* absent or refusing, CLI or shell failing) on this host.
ExitStatus(cmd, dn) == IF <<cmd.subdir, cmd.transport>> \in dn THEN 1 ELSE 0

\* What a command prints: nothing when it fails, the rows of the config table
\* that the WHERE clause keeps for the config query, one row otherwise.
Output(cmd, status, table) ==
    IF status # 0 THEN <<>>
    ELSE IF cmd.arg = ConfigQuery /\ cmd.transport \in {"socket", "cli"}
         THEN RenderRows(SelectSeq(table, LAMBDA row : row[1] \notin SecretKeywordKeys), 1)
         ELSE <<"row", NL>>

\* where the output of a command is stored
OutputPath(cmd) ==
    "sos_commands/" \o cmd.plugin \o "/" \o cmd.subdir \o "/" \o cmd.suggest_filename

\* Microk8s.setup: `microk8s config`, whose output the plugin's postproc edits
Microk8sConfigPath == "sos_commands/microk8s/microk8s_config"

Microk8sExecuted(inst) ==
    IF "microk8s" \in inst THEN <<Microk8sConfigPath>> ELSE <<>>

KubeConfigText ==
    <<" ", "certificate-authority-data", ":", " ", "x", NL,
      " ", "client-key-data", ":", " ", "x", NL,
      " ", "token", ":", " ", "x", NL>>

CephConfText == <<"rgw keystone admin password", " ", "=", " ", "hunter2", NL>>

RECURSIVE RenderTopology(_, _)
RenderTopology(lines, i) ==
    IF i > Len(lines) THEN <<>>
    ELSE <<lines[i].key, " ", lines[i].value, NL>> \o RenderTopology(lines, i + 1)

\* the files of the host that the copy specs of the model can name
HostFiles(inst, readable, lines) ==
    (IF "microk8s" \in inst THEN ClientConfigPath :> KubeConfigText ELSE <<>>)
    @@ (IF readable
        THEN (Registry("microk8s").db_path \o "/cluster.yaml") :> RenderTopology(lines, 1)
        ELSE <<>>)

\* what the ceph_common and microk8s plugins have collected:
\* CephCommon.setup copies /etc/ceph/ unless microceph is installed
OtherPluginsArchive(inst) ==
    (IF "microceph" \notin inst THEN CephConfPath :> CephConfText ELSE <<>>)
    @@ (IF "microk8s" \in inst THEN Microk8sConfigPath :> KubeConfigText ELSE <<>>)

\* ------------------------------------------------------------ report run
Init ==
    /\ installed \in {s \in SUBSET PackageSet : Cardinality(s) <= MaxInstalled}
    /\ topoReadable \in (IF "microk8s" \in installed THEN BOOLEAN ELSE {FALSE})
    /\ cluster \in (IF topoReadable THEN Topologies ELSE {<<>>})
    /\ cfgTable \in ConfigTables
    /\ down \in SUBSET {d \in installed \X {"socket", "cli", "dqlite"} :
                            d[2] \in TransportsOf(d[1])}
    /\ pc = "setup"
    /\ pkgIdx = 1
    /\ collect_cmds = <<>>
    /\ copy_specs = <<>>
    /\ alerts = <<>>
    /\ results = <<>>
    /\ archive = OtherPluginsArchive(installed)
    /\ passes = <<>>
    /\ microk8s_cmds = <<>>
    /\ setup_raised = {}

\* dqlite.setup: one iteration of `for pkg, config in packages.items()`
SetupPkg ==
    /\ pc = "setup"
    /\ LET pkg == Packages[pkgIdx]
           cfg == Registry(pkg)
           base == base_collection(pkg, cfg)
           hook == Collection(pkg, cfg, topoReadable, cluster)
       IN  IF pkg \in installed
           THEN /\ collect_cmds' = collect_cmds \o base.cmds \o hook.cmds
                /\ copy_specs' = copy_specs \o base.copies \o hook.copies
                /\ alerts' = alerts \o base.alerts \o hook.alerts
           ELSE UNCHANGED <<collect_cmds, copy_specs, alerts>>
    /\ pkgIdx' = pkgIdx + 1
    /\ pc' = IF pkgIdx = Len(Packages) THEN "setup_microk8s" ELSE "setup"
    /\ UNCHANGED <<installed, topoReadable, cluster, cfgTable, down, results, archive, passes>>
    /\ UNCHANGED <<microk8s_cmds, setup_raised>>

\* Microk8s.setup, run when the plugin is enabled (its package is installed).
\* An exception raised by a plugin's setup ends that setup and is recorded;
\* the report goes on with what has been added so far.
Microk8sSetup ==
    /\ pc = "setup_microk8s"
    /\ LET s == microk8s_setup(Microk8sClassNodes(topoReadable, cluster))
       IN  IF "microk8s" \in installed
           THEN /\ microk8s_cmds' = s.cmds
                /\ copy_specs' = copy_specs \o s.copies
                /\ setup_raised' = IF s.raised THEN setup_raised \cup {"microk8s"}
                                   ELSE setup_raised
           ELSE UNCHANGED <<microk8s_cmds, copy_specs, setup_raised>>
    /\ pc' = "copy"
    /\ UNCHANGED <<installed, topoReadable, cluster, cfgTable, down, pkgIdx, collect_cmds,
                   alerts, results, archive, passes>>

\* the copy specs collected: every named file the host has
CollectFiles ==
    /\ pc = "copy"
    /\ LET host == HostFiles(installed, topoReadable, cluster)
           copied == {copy_specs[i] : i \in DOMAIN copy_specs} \cap DOMAIN host
       IN  archive' = [f \in copied |-> host[f]] @@ archive
    /\ pc' = IF collect_cmds = <<>> THEN "postproc_ceph_common" ELSE "commands"
    /\ UNCHANGED <<installed, topoReadable, cluster, cfgTable, down, pkgIdx, collect_cmds,
                   copy_specs, alerts, results, passes>>
    /\ UNCHANGED <<microk8s_cmds, setup_raised>>

\* the next collected command runs and its output, whatever its exit status,
\* is stored
Execute ==
    /\ pc = "commands"
    /\ LET cmd == collect_cmds[Len(results) + 1]
           status == ExitStatus(cmd, down)
       IN  /\ archive' = (OutputPath(cmd) :> Output(cmd, status, cfgTable)) @@ archive
           /\ results' = Append(results, status)
    /\ pc' = IF Len(results) + 1 = Len(collect_cmds) THEN "postproc_ceph_common"
             ELSE "commands"
    /\ UNCHANGED <<installed, topoReadable, cluster, cfgTable, down, pkgIdx, collect_cmds,
                   copy_specs, alerts, passes>>
    /\ UNCHANGED <<microk8s_cmds, setup_raised>>

CephCommonPostproc ==
    /\ pc = "postproc_ceph_common"
    /\ archive' = ceph_common_postproc(archive)
    /\ pc' = "postproc_dqlite"
    /\ UNCHANGED <<installed, topoReadable, cluster, cfgTable, down, pkgIdx, collect_cmds,
                   copy_specs, alerts, results, passes>>
    /\ UNCHANGED <<microk8s_cmds, setup_raised>>

DqlitePostproc ==
    /\ pc = "postproc_dqlite"
    /\ archive' = dqlite_postproc(archive)
    /\ pc' = "postproc_microk8s"
    /\ UNCHANGED <<installed, topoReadable, cluster, cfgTable, down, pkgIdx, collect_cmds,
                   copy_specs, alerts, results, passes>>
    /\ UNCHANGED <<microk8s_cmds, setup_raised>>

Microk8sPostproc ==
    /\ pc = "postproc_microk8s"
    /\ archive' = microk8s_postproc(archive, Microk8sExecuted(installed))
    /\ pc' = "done"
    /\ UNCHANGED <<installed, topoReadable, cluster, cfgTable, down, pkgIdx, collect_cmds,
                   copy_specs, alerts, results, passes>>
    /\ UNCHANGED <<microk8s_cmds, setup_raised>>

Next ==
    \/ SetupPkg
    \/ Microk8sSetup
    \/ CollectFiles
    \/ Execute
    \/ CephCommonPostproc
    \/ DqlitePostproc
    \/ Microk8sPostproc

Spec == Init /\ [][Next]_vars

\* ------------------------------------------------- redaction specification
\* The substitutions of dqlite.postproc and Microk8s.postproc applied, in any
\* order and repeatedly, to an arbitrary client.config.
RedactAlphabet == {" ", NL, "#", ":", "x"} \cup Microk8sRule.keys

Texts == UNION {[1..n -> RedactAlphabet] : n \in 0..MaxTextLen}

InitRedact ==
    /\ installed = {"microk8s"}
    /\ topoReadable = FALSE
    /\ cluster = <<>>
    /\ cfgTable \in ConfigTables
    /\ down = {}
    /\ pc = "redact"
    /\ pkgIdx = Len(Packages) + 1
    /\ collect_cmds = <<>>
    /\ copy_specs = <<ClientConfigPath>>
    /\ alerts = <<>>
    /\ results = <<>>
    /\ \E text \in Texts : archive = ClientConfigPath :> text
    /\ passes = <<>>
    /\ microk8s_cmds = <<>>
    /\ setup_raised = {}

Pass(plugin, before, after) == [plugin |-> plugin, before |-> before, after |-> after]

RedactDqlite ==
    /\ pc = "redact"
    /\ Len(passes) < MaxPasses
    /\ archive' = dqlite_postproc(archive)
    /\ passes' = Append(passes, Pass("dqlite", archive[ClientConfigPath],
                                     archive'[ClientConfigPath]))
    /\ UNCHANGED <<installed, topoReadable, cluster, cfgTable, down, pc, pkgIdx,
                   collect_cmds, copy_specs, alerts, results>>
    /\ UNCHANGED <<microk8s_cmds, setup_raised>>

RedactMicrok8s ==
    /\ pc = "redact"
    /\ Len(passes) < MaxPasses
    /\ archive' = microk8s_postproc(archive, <<>>)
    /\ passes' = Append(passes, Pass("microk8s", archive[ClientConfigPath],
                                     archive'[ClientConfigPath]))
    /\ UNCHANGED <<installed, topoReadable, cluster, cfgTable, down, pc, pkgIdx,
                   collect_cmds, copy_specs, alerts, results>>
    /\ UNCHANGED <<microk8s_cmds, setup_raised>>

NextRedact == RedactDqlite \/ RedactMicrok8s

SpecRedact == InitRedact /\ [][NextRedact]_vars

\* ================================================================= claims
Tokens(t) == {t[k] : k \in DOMAIN t}

\* the packages dqlite.setup has gone through
Processed == {Packages[k] : k \in 1..(pkgIdx - 1)} \cap installed

\* the two names run_batch_dqlite_queries gives the results of `table`
LabelNames(pkg, table) ==
    {pkg \o "_dqlite_" \o table, Registry(pkg).sql_cmd \o "_" \o table}

\* a command labelled `table` has been added for pkg
HasLabel(pkg, table) ==
    \E i \in DOMAIN collect_cmds :
        /\ collect_cmds[i].subdir = pkg
        /\ collect_cmds[i].suggest_filename \in LabelNames(pkg, table)

\* a result labelled `table` is stored for pkg
Produced(pkg, table) ==
    \E n \in LabelNames(pkg, table) :
        ("sos_commands/dqlite/" \o pkg \o "/" \o n) \in DOMAIN archive

\* C1: within one backend's subdirectory no two collected commands share a
\* suggested filename.
C1_UniqueLabels ==
    \A i, j \in DOMAIN collect_cmds :
        (i # j /\ collect_cmds[i].subdir = collect_cmds[j].subdir)
            => collect_cmds[i].suggest_filename # collect_cmds[j].suggest_filename

\* C2: a second pass of the same credentials-file substitution leaves the
\* text as the first pass left it.
C2_Idempotent ==
    \A k \in DOMAIN passes :
        (k > 1 /\ passes[k].plugin = passes[k - 1].plugin)
            => passes[k].after = passes[k - 1].after

\* C3: once the run is done, no stored result of the config query holds the
\* value hunter2, whichever transport produced it.
C3_ConfigResultMasked ==
    pc = "done" =>
        \A i \in DOMAIN collect_cmds :
            collect_cmds[i].arg = ConfigQuery
                => "hunter2" \notin Tokens(archive[OutputPath(collect_cmds[i])])

\* The expression of the credentials-file rule as the specification states it:
\* ^\s*(#?\s*(certificate-authority-data|client-certificate-data|client-key-data|token):\s*)(\S.*)
StatedCredentialsRule ==
    [anchored |-> TRUE, lead |-> "outside", hash_opt |-> TRUE,
     keys |-> {"certificate-authority-data", "client-certificate-data", "client-key-data",
               "token"},
     ws_before_sep |-> FALSE, sep |-> ":", ws_after_sep |-> "star",
     value_nonempty |-> TRUE, mask |-> <<" ", "******">>]

\* both plugins have made their pass over client.config
BothPassed ==
    Len(passes) = 2 /\ {passes[1].plugin, passes[2].plugin} = {"dqlite", "microk8s"}

\* C4: when every value token x of client.config stands in the value portion
\* of a line of one of the four keys (optionally commented out), no x is left
\* once both plugins have made their pass.
C4_ProtectedValuesMasked ==
    (BothPassed /\ "x" \notin Tokens(Sub(StatedCredentialsRule, passes[1].before)))
        => "x" \notin Tokens(archive[ClientConfigPath])

\* C5 as stated: every installed backend but microk8s has the token_records
\* and core_cluster_members queries, and microk8s has neither.
C5_MembershipUnlessMicrok8s ==
    \A pkg \in Processed :
        IF pkg = "microk8s"
        THEN ~HasLabel(pkg, "token_records") /\ ~HasLabel(pkg, "core_cluster_members")
        ELSE HasLabel(pkg, "token_records") /\ HasLabel(pkg, "core_cluster_members")

\* C5 amended: microceph, microovn and microcloud have the token_records and
\* core_cluster_members queries, through each transport; lxd and microk8s
\* have neither.
C5_MembershipUnlessLxdOrMicrok8s ==
    \A pkg \in Processed :
        IF pkg \in {"lxd", "microk8s"}
        THEN /\ ~HasLabel(pkg, "token_records")
             /\ ~HasLabel(pkg, "core_cluster_members")
        ELSE \A t \in {"token_records", "core_cluster_members"} :
                \A n \in LabelNames(pkg, t) :
                    \E i \in DOMAIN collect_cmds :
                        /\ collect_cmds[i].subdir = pkg
                        /\ collect_cmds[i].suggest_filename = n

C5_Witness ==
    /\ pc = "done"
    /\ installed = {"microcloud", "lxd"}
    /\ HasLabel("microcloud", "core_cluster_members")
    /\ HasLabel("lxd", "schema")

CommonTables == {"schema", "config", "token_records", "core_cluster_members", "services"}

\* C6: no socket or CLI command is ever added for microk8s, and no command or
\* stored result of microk8s carries a label of the common plan.
C6_Microk8sNoCommonQueries ==
    /\ \A i \in DOMAIN collect_cmds :
          collect_cmds[i].subdir = "microk8s"
              => collect_cmds[i].transport \notin {"socket", "cli"}
    /\ \A t \in CommonTables : ~HasLabel("microk8s", t) /\ ~Produced("microk8s", t)

C6_Witness ==
    /\ pc = "done"
    /\ "microk8s" \in installed
    /\ \E i \in DOMAIN collect_cmds :
          /\ collect_cmds[i].subdir = "microk8s"
          /\ collect_cmds[i].transport = "dqlite"
          /\ OutputPath(collect_cmds[i]) \in DOMAIN archive

\* C7: a config query is in the plan of an installed backend exactly when the
\* backend is neither microcloud nor microk8s, and no config result is ever
\* stored for microcloud.
C7_ConfigUnlessMicrocloud ==
    /\ \A pkg \in Processed :
          HasLabel(pkg, "config") <=> pkg \notin {"microcloud", "microk8s"}
    /\ ~Produced("microcloud", "config")

C7_Witness ==
    /\ pc = "done"
    /\ installed = {"microcloud", "lxd"}
    /\ Produced("lxd", "config")
    /\ Produced("microcloud", "schema")

\* C8: a services query is added, and a services result stored, for
\* microceph and microovn only.
C8_ServicesOnlyMicrocephMicroovn ==
    \A pkg \in PackageSet :
        (HasLabel(pkg, "services") \/ Produced(pkg, "services"))
            => pkg \in {"microceph", "microovn"}

C8_Witness ==
    /\ pc = "done"
    /\ installed = {"microovn", "microcloud"}
    /\ Produced("microovn", "services")
    /\ Produced("microcloud", "schema")

\* the commands microk8s_collection has added
Microk8sCmds ==
    SelectSeq(collect_cmds, LAMBDA c : c.subdir = "microk8s" /\ c.transport = "dqlite")

\* the Address lines of cluster.yaml
AddressLines == SelectSeq(cluster, LAMBDA l : l.key = "Address:")

\* C9: with a readable cluster.yaml of n Address lines, microk8s_collection
\* adds the three fixed queries and then n describe queries, the i-th named
\* after and given the address of the i-th Address line.
C9_DescribePerAddress ==
    ("microk8s" \in Processed /\ topoReadable) =>
        /\ Len(Microk8sCmds) = 3 + Len(AddressLines)
        /\ \A i \in 1..3 : Microk8sCmds[i].arg = FixedQueries[i]
        /\ \A i \in 1..Len(AddressLines) :
              /\ Microk8sCmds[3 + i].suggest_filename
                     = "microk8s_dqlite_.describe_" \o AddressLines[i].value
              /\ Microk8sCmds[3 + i].arg
                     = "\".describe " \o AddressLines[i].value \o "\" -f json"

C9_Witness ==
    /\ pc = "done"
    /\ topoReadable
    /\ cluster = <<[key |-> "Address:", value |-> "10.0.0.1:7000"],
                   [key |-> "Address:", value |-> "10.0.0.2:7000"]>>
    /\ Len(Microk8sCmds) = 5

\* C10: every socket command of a backend with a SQL CLI command is followed
\* by the CLI command of the same query; and once the commands have run, a
\* socket command that failed has not kept that CLI command, or any later
\* command, from running and storing its result.
C10_SocketFailureConfined ==
    /\ \A i \in DOMAIN collect_cmds :
          (collect_cmds[i].transport = "socket"
              /\ Registry(collect_cmds[i].subdir).sql_cmd # None)
          => /\ i + 1 \in DOMAIN collect_cmds
             /\ collect_cmds[i + 1].transport = "cli"
             /\ collect_cmds[i + 1].arg = collect_cmds[i].arg
             /\ collect_cmds[i + 1].subdir = collect_cmds[i].subdir
    /\ pc \in {"postproc_ceph_common", "postproc_dqlite", "postproc_microk8s", "done"}
          => \A i \in DOMAIN collect_cmds :
                (collect_cmds[i].transport = "socket" /\ results[i] # 0)
                => \A j \in i..Len(collect_cmds) :
                      /\ j \in DOMAIN results
                      /\ OutputPath(collect_cmds[j]) \in DOMAIN archive

C10_Witness ==
    /\ pc = "done"
    /\ \E i \in DOMAIN collect_cmds :
          /\ collect_cmds[i].transport = "socket"
          /\ results[i] # 0
          /\ i + 2 \in DOMAIN results
          /\ collect_cmds[i + 1].transport = "cli"
          /\ results[i + 1] = 0
          /\ results[i + 2] = 0

\* the alert dqlite.microk8s_collection gives for an unreadable cluster.yaml
TopologyAlert == "Failed to parse " \o Registry("microk8s").db_path \o "/cluster.yaml"

\* the commands of a sequence that run the dqlite shell
DqliteShellArgs(cmds) ==
    LET sel == SelectSeq(cmds, LAMBDA c : c.transport = "dqlite")
    IN  [i \in 1..Len(sel) |-> sel[i].arg]

\* dqlite.microk8s_collection with an unreadable cluster.yaml: the alert is
\* recorded and exactly the three fixed queries are added
DqliteTopologyFailureHandled ==
    "microk8s" \in Processed =>
        /\ \E i \in DOMAIN alerts : alerts[i] = TopologyAlert
        /\ DqliteShellArgs(collect_cmds) = FixedQueries

\* the backends after microk8s in the registry are collected all the same
LaterBackendsCollected ==
    (pc = "done" /\ "lxd" \in installed) =>
        /\ HasLabel("lxd", "schema")
        /\ Produced("lxd", "schema")

\* Microk8s.setup with an unreadable cluster.yaml: it does not raise and adds
\* exactly the three fixed queries
Microk8sTopologyFailureHandled ==
    pc \notin {"setup", "setup_microk8s"} =>
        /\ "microk8s" \notin setup_raised
        /\ DqliteShellArgs(microk8s_cmds) = FixedQueries

\* C11: when cluster.yaml cannot be read, each topology-driven collection
\* (dqlite.microk8s_collection and Microk8s.setup) goes on without raising,
\* with no describe query and with the three fixed cluster/leader queries,
\* dqlite.microk8s_collection records an alert, and the backends after
\* microk8s in the registry are still collected.
C11_TopologyFailureNonFatal ==
    ("microk8s" \in installed /\ ~topoReadable) =>
        /\ DqliteTopologyFailureHandled
        /\ LaterBackendsCollected
        /\ Microk8sTopologyFailureHandled

\* the lines of a text: the runs of tokens between newlines
RECURSIVE SplitFrom(_, _)
SplitFrom(t, p) ==
    IF LineEnd(t, p) > Len(t) THEN <<SubSeq(t, p, Len(t))>>
    ELSE <<SubSeq(t, p, LineEnd(t, p) - 1)>> \o SplitFrom(t, LineEnd(t, p) + 1)

SplitLines(t) == SplitFrom(t, 1)

\* the rule a plugin's postproc applies to client.config
FileRuleOf(plugin) == IF plugin = "dqlite" THEN DqliteRule ELSE Microk8sRule

\* text t ends with the tokens of suffix
EndsWith(t, suffix) ==
    /\ Len(suffix) <= Len(t)
    /\ SubSeq(t, Len(t) - Len(suffix) + 1, Len(t)) = suffix

\* group 1 of the rule's match on a line taken alone: its key prefix
KeyPrefix(r, line) ==
    SubSeq(line, RuleMatch(r, line, 1).g1s, RuleMatch(r, line, 1).g1e - 1)

\* C12: a pass of a plugin's substitution over client.config keeps the number
\* of lines; a line the rule does not match is unchanged; a line the rule
\* matches stays where it is and ends with its key prefix (the comment marker
\* included) followed by the mask.
C12_LinesPreserved ==
    \A k \in DOMAIN passes :
        LET r == FileRuleOf(passes[k].plugin)
            b == SplitLines(passes[k].before)
            a == SplitLines(passes[k].after)
        IN  /\ Len(a) = Len(b)
            /\ \A i \in DOMAIN b :
                  IF RuleMatch(r, b[i], 1).ok
                  THEN EndsWith(a[i], KeyPrefix(r, b[i]) \o r.mask)
                  ELSE a[i] = b[i]

\* the labels the filename convention allows
StatedLabels ==
    {"schema", "token_records", "core_cluster_members", "config", "services", "disks",
     "client_config", "remote", ".cluster", ".leader"}
        \cup {".describe_" \o a : a \in IpPorts}

\* a query command's suggested filename has the stated form for its backend
HasStatedName(c) ==
    \E l \in StatedLabels :
        c.suggest_filename =
            (IF c.transport = "cli" THEN Registry(c.subdir).sql_cmd \o "_" \o l
             ELSE c.subdir \o "_dqlite_" \o l)

\* C13: every query command added for an installed backend b has subdir b
\* and a suggested filename b_dqlite_<label>, or <sql_cmd>_<label> for the CLI
\* command, with <label> one of the stated labels.
C13_FilenameForm ==
    \A i \in DOMAIN collect_cmds :
        collect_cmds[i].transport \in {"socket", "cli", "dqlite"}
            => /\ collect_cmds[i].subdir \in installed
               /\ HasStatedName(collect_cmds[i])

====
